---------------------------- MODULE Spec2Model ----------------------------
(***************************************************************************)
(* State-machine model of AudioPluginProcessor (source/PluginProcessor.cpp, *)
(* include/PluginProcessor.h) and of the control binding made by            *)
(* AudioPluginEditor (source/PluginEditor.cpp).                             *)
(*                                                                          *)
(* The processor owns three members (PluginProcessor.h:63-69):              *)
(*   apvts          juce::AudioProcessorValueTreeState, the parameter store *)
(*   gainParameter  pointer to the store's atomic float for "gain"          *)
(*   gain           juce::dsp::Gain<float>, the smoothed gain stage         *)
(* Every operation of the processor is a call into one of these library     *)
(* objects; each operator below is the library routine the source calls,    *)
(* with the arguments the source passes.                                    *)
(*                                                                          *)
(* Units.  Decibel values are integers counting hundredths of a dB          *)
(* (-60.0f is -6000), so that values off the parameter's 0.1 dB step grid   *)
(* exist.  A normalised (0..1) value p is the integer p * (GainMax -        *)
(* GainMin).  Linear gains are exact rationals of thousandths               *)
(* ([n |-> 1995, d |-> 1] is 1.995).  Floating-point rounding is not        *)
(* modelled: all arithmetic is exact.                                       *)
(***************************************************************************)
EXTENDS Integers, Sequences, FiniteSets, TLC

(***************************************************************************)
(* createParameterLayout: the one declared parameter.                       *)
(***************************************************************************)
ParameterIDs == {"gain"}
GainMin == -6000
GainMax == 1200
GainInterval == 10
GainDefault == 0

(***************************************************************************)
(* Bounds of the model.                                                     *)
(***************************************************************************)
MaxBlockSize == 2
MaxBlocks == 4

Abs(x) == IF x < 0 THEN -x ELSE x

Jlimit(lo, hi, x) == IF x < lo THEN lo ELSE IF x > hi THEN hi ELSE x

(***************************************************************************)
(* NormalisableRange<float>(-60, 12, 0.1, 1.0)::snapToLegalValue:           *)
(*   v = start + interval * floor ((v - start) / interval + 0.5);           *)
(*   return v <= start ? start : (v >= end ? end : v);                      *)
(***************************************************************************)
\* Variant of snapToLegalValue that clamps and does not snap.
ClampNoSnap(v) == Jlimit(GainMin, GainMax, v)

SnapToLegalValue(v) ==
    LET s == GainMin + GainInterval * ((2 * (v - GainMin) + GainInterval) \div (2 * GainInterval))
    IN  IF s <= GainMin THEN GainMin ELSE IF s >= GainMax THEN GainMax ELSE s

(***************************************************************************)
(* RangedAudioParameter::convertTo0to1 / convertFrom0to1 with skew 1.0:     *)
(* the proportion (v - start) / (end - start), kept as its numerator.       *)
(***************************************************************************)
ConvertTo0to1(v) == SnapToLegalValue(v) - GainMin

ConvertFrom0to1(p) == SnapToLegalValue(GainMin + Jlimit(0, GainMax - GainMin, p))

(***************************************************************************)
(* Text of a number in the XML document: String (double) writes a sign, the *)
(* whole part and the decimals; String::getDoubleValue reads them back.     *)
(***************************************************************************)
NoText == [neg |-> FALSE, whole |-> 0, frac |-> 0]

\* Variant of FormatValue that drops the sign.
FormatUnsigned(v) == [neg |-> FALSE, whole |-> Abs(v) \div 100, frac |-> Abs(v) % 100]

FormatValue(v) == [neg |-> v < 0, whole |-> Abs(v) \div 100, frac |-> Abs(v) % 100]

ParseValue(t) == (IF t.neg THEN -1 ELSE 1) * (t.whole * 100 + t.frac)

(***************************************************************************)
(* juce::var as held by a ValueTree property: void (no property), a double  *)
(* (written by flushToTree) or a string (read by ValueTree::fromXml).       *)
(***************************************************************************)
VarVoid == [t |-> "void", d |-> 0, s |-> NoText]
VarDouble(v) == [t |-> "double", d |-> v, s |-> NoText]
VarString(s) == [t |-> "string", d |-> 0, s |-> s]
VarToFloat(x) == IF x.t = "double" THEN x.d ELSE IF x.t = "string" THEN ParseValue(x.s) ELSE 0
VarToString(x) == IF x.t = "string" THEN x.s ELSE FormatValue(x.d)


(***************************************************************************)
(* The parameter store, apvts (PluginProcessor.h:63, constructed at         *)
(* PluginProcessor.cpp:14 with tree type "Parameters").  Fields:            *)
(*   value                AudioParameterFloat::value of "gain"              *)
(*   unnormalisedValue    the adapter's std::atomic<float>, the cell        *)
(*                        gainParameter points to (PluginProcessor.cpp:17)  *)
(*   needsUpdate          adapter flag: the tree is behind the atomic       *)
(*   listenersNeedCalling adapter flag: no change was delivered yet         *)
(*   children             the child elements of apvts.state, in order;      *)
(*                        each [id, value] (value is the "value" property)  *)
(*   tree                 index of the child bound to "gain" (0: none)      *)
(***************************************************************************)
StateType == "Parameters"

Child(id, value) == [id |-> id, value |-> value]

\* ParameterAdapter::parameterValueChanged: the listener the parameter calls.
ParameterValueChanged(s) ==
    LET newValue == ConvertFrom0to1(ConvertTo0to1(s.value))
    IN  IF s.unnormalisedValue = newValue /\ ~s.listenersNeedCalling
        THEN s
        ELSE [s EXCEPT !.unnormalisedValue = newValue,
                       !.listenersNeedCalling = FALSE,
                       !.needsUpdate = TRUE]

\* AudioProcessorParameter::setValueNotifyingHost (p): setValue (p), then the
\* listeners.  AudioParameterFloat::setValue stores convertFrom0to1 (p).
SetValueNotifyingHost(s, p) ==
    ParameterValueChanged([s EXCEPT !.value = ConvertFrom0to1(p)])

\* Variant of SetDenormalisedValue that stores the number as it is.
SetDenormalisedValueRaw(s, v) ==
    IF v = s.unnormalisedValue
    THEN s
    ELSE [s EXCEPT !.value = v, !.unnormalisedValue = v,
                   !.listenersNeedCalling = FALSE, !.needsUpdate = TRUE]

\* ParameterAdapter::setDenormalisedValue.
SetDenormalisedValue(s, v) ==
    IF v = s.unnormalisedValue THEN s ELSE SetValueNotifyingHost(s, ConvertTo0to1(v))

\* ParameterAdapter::flushToTree: writes the atomic into the bound child when
\* needsUpdate is set, and only then.
FlushToTree(s) ==
    IF ~s.needsUpdate
    THEN s
    ELSE LET cur == s.children[s.tree].value
         IN  [s EXCEPT !.needsUpdate = FALSE,
                       !.children[s.tree].value =
                           IF cur.t # "void" /\ VarToFloat(cur) = s.unnormalisedValue
                           THEN cur
                           ELSE VarDouble(s.unnormalisedValue)]

\* AudioProcessorValueTreeState::setNewState (child i of the state): a child
\* whose id names a declared parameter is bound to it and its value property
\* (the parameter's default when the child has none) is applied.
\* Variant of SetNewState that applies a child whatever its id.
SetNewStateAnyId(s, i) ==
    LET child == s.children[i]
    IN  SetDenormalisedValue([s EXCEPT !.tree = i],
              IF child.value.t = "void"
              THEN ConvertFrom0to1(ConvertTo0to1(GainDefault))
              ELSE VarToFloat(child.value))

SetNewState(s, i) ==
    LET child == s.children[i]
    IN  IF child.id \notin ParameterIDs
        THEN s
        ELSE SetDenormalisedValue([s EXCEPT !.tree = i],
                  IF child.value.t = "void"
                  THEN ConvertFrom0to1(ConvertTo0to1(GainDefault))
                  ELSE VarToFloat(child.value))

RECURSIVE SetNewStates(_, _)
SetNewStates(s, i) ==
    IF i > Len(s.children) THEN s ELSE SetNewStates(SetNewState(s, i), i + 1)

\* AudioProcessorValueTreeState::replaceState: state = newState, which runs
\* updateParameterConnectionsToChildTrees: unbind, setNewState on every child,
\* append an id-only child for a parameter left unbound, flush.
ReplaceState(s, newChildren) ==
    LET s1 == SetNewStates([s EXCEPT !.children = newChildren, !.tree = 0], 1)
        s2 == IF s1.tree = 0
              THEN [s1 EXCEPT !.children = Append(s1.children, Child("gain", VarVoid)),
                              !.tree = Len(s1.children) + 1]
              ELSE s1
    IN  FlushToTree(s2)

\* The store as the constructor leaves it (PluginProcessor.cpp:14): the
\* adapter starts at the default with needsUpdate set, and assigning the empty
\* "Parameters" tree runs updateParameterConnectionsToChildTrees.
Constructed ==
    ReplaceState([value |-> GainDefault,
                  unnormalisedValue |-> ConvertFrom0to1(ConvertTo0to1(GainDefault)),
                  needsUpdate |-> TRUE,
                  listenersNeedCalling |-> TRUE,
                  children |-> << >>,
                  tree |-> 0], << >>)

(***************************************************************************)
(* The persisted blob.  copyXmlToBinary writes a magic number ahead of the  *)
(* document's text; getXmlFromBinary returns null unless the magic number   *)
(* is there and the text parses.  A document is its tag name and its child  *)
(* elements [id, hasValue, text].                                           *)
(***************************************************************************)
XmlChild(id, hasValue, text) == [id |-> id, hasValue |-> hasValue, text |-> text]

Document(tag, children) == [parses |-> TRUE, tag |-> tag, children |-> children]

Unparseable == [parses |-> FALSE, tag |-> "", children |-> << >>]

Blob(magic, doc) == [magic |-> magic, doc |-> doc]

NoBlob == Blob("none", Unparseable)

\* ValueTree::createXml on a copy of the state.
CreateXml(s) ==
    Document(StateType,
             [i \in 1..Len(s.children) |->
                 XmlChild(s.children[i].id,
                          s.children[i].value.t # "void",
                          IF s.children[i].value.t = "void"
                          THEN NoText
                          ELSE VarToString(s.children[i].value))])

\* ValueTree::fromXml: every attribute becomes a string property.
FromXml(doc) ==
    [i \in 1..Len(doc.children) |->
        Child(doc.children[i].id,
              IF doc.children[i].hasValue THEN VarString(doc.children[i].text) ELSE VarVoid)]

CopyXmlToBinary(doc) == Blob("magicXmlNumber", doc)

GetXmlFromBinary(data) ==
    IF data.magic = "magicXmlNumber" /\ data.doc.parses THEN data.doc ELSE Unparseable

\* getStateInformation (PluginProcessor.cpp:191-197): copyState flushes, then
\* the copy is written out.  Returns the store and the blob.
StateInformation(s) ==
    LET s1 == FlushToTree(s)
    IN  [apvts |-> s1, destData |-> CopyXmlToBinary(CreateXml(s1))]

\* setStateInformation (PluginProcessor.cpp:199-207).
\* Variant of Restored without the hasTagName test.
RestoreAnyTag(s, data) ==
    LET xmlState == GetXmlFromBinary(data)
    IN  IF xmlState.parses THEN ReplaceState(s, FromXml(xmlState)) ELSE s

Restored(s, data) ==
    LET xmlState == GetXmlFromBinary(data)
    IN  IF xmlState.parses
        THEN IF xmlState.tag = StateType
             THEN ReplaceState(s, FromXml(xmlState))
             ELSE s
        ELSE s

\* A control-path write of the plain value v to "gain": the slider attachment
\* (PluginEditor.cpp:25-29), or any caller holding getValueTreeState()
\* (PluginProcessor.h:54), ends in setValueNotifyingHost (convertTo0to1 (v)).
Written(s, v) == SetValueNotifyingHost(s, ConvertTo0to1(v))


(***************************************************************************)
(* Exact rationals [n, d] with d > 0, in lowest terms.                      *)
(***************************************************************************)
RECURSIVE Gcd(_, _)
Gcd(a, b) == IF b = 0 THEN a ELSE Gcd(b, a % b)

Rat(n, d) ==
    LET g == Gcd(Abs(n), d)
    IN  IF n = 0 THEN [n |-> 0, d |-> 1] ELSE [n |-> n \div g, d |-> d \div g]

RInt(k) == [n |-> k, d |-> 1]
RAdd(a, b) == Rat(a.n * b.d + b.n * a.d, a.d * b.d)
RSub(a, b) == Rat(a.n * b.d - b.n * a.d, a.d * b.d)
RDivInt(a, k) == Rat(a.n, a.d * k)
RAbs(a) == [n |-> Abs(a.n), d |-> a.d]
RLeq(a, b) == a.n * b.d <= b.n * a.d

(***************************************************************************)
(* juce::Decibels::decibelsToGain (dB), called with its default floor       *)
(* (PluginProcessor.cpp:165):                                               *)
(*   dB > minusInfinityDb ? std::pow (10, dB * 0.05) : 0                    *)
(* TenToThe gives 10^(dB/20) in thousandths for dB = 20 k + r with r among  *)
(* 0, 6 and 12 dB, the values the model's inputs produce (1.995 and 3.981   *)
(* are 10^0.3 and 10^0.6 to three decimals).                                *)
(***************************************************************************)
MinusInfinityDb == -10000

RECURSIVE PowerOfTen(_)
PowerOfTen(e) == IF e = 0 THEN 1 ELSE 10 * PowerOfTen(e - 1)

Mantissa(r) == CASE r = 0 -> 1000 [] r = 600 -> 1995 [] r = 1200 -> 3981

TenToThe(dB) ==
    LET e == dB \div 2000
        r == dB % 2000
    IN  IF e >= 0 THEN Rat(Mantissa(r) * PowerOfTen(e), 1)
        ELSE Rat(Mantissa(r), PowerOfTen(-e))

\* Variant of DecibelsToGain whose floor is the parameter's minimum.
DecibelsToGainFloorAtMin(dB) == IF dB > GainMin THEN TenToThe(dB) ELSE RInt(0)

DecibelsToGain(dB) == IF dB > MinusInfinityDb THEN TenToThe(dB) ELSE RInt(0)

(***************************************************************************)
(* The gain stage, gain (PluginProcessor.h:69): juce::dsp::Gain<float>      *)
(* holding a linear SmoothedValue<float>.  Fields:                          *)
(*   sampleRate, rampDurationSeconds (hundredths of a second)  dsp::Gain    *)
(*   currentValue, target, step, countdown, stepsToTarget      SmoothedValue*)
(* A default-constructed linear SmoothedValue starts at 0.                  *)
(***************************************************************************)
RampDurationSeconds == 5

GainConstructed ==
    [sampleRate |-> 0, rampDurationSeconds |-> 0, stepsToTarget |-> 0,
     currentValue |-> RInt(0), target |-> RInt(0), step |-> RInt(0), countdown |-> 0]

\* SmoothedValue::reset (sampleRate, rampLengthInSeconds):
\*   reset ((int) std::floor (rampLengthInSeconds * sampleRate)), which sets
\*   stepsToTarget and setCurrentAndTargetValue (target).
RampSteps(sampleRate, seconds) == (seconds * sampleRate) \div 100

SmoothedValueReset(g, sampleRate, seconds) ==
    [g EXCEPT !.stepsToTarget = RampSteps(sampleRate, seconds),
              !.currentValue = g.target,
              !.countdown = 0]

\* dsp::Gain::reset: if (sampleRate > 0) gain.reset (sampleRate, rampDurationSeconds).
GainReset(g) ==
    IF g.sampleRate > 0 THEN SmoothedValueReset(g, g.sampleRate, g.rampDurationSeconds) ELSE g

\* dsp::Gain::prepare (spec): sampleRate = spec.sampleRate; reset().
GainPrepare(g, sampleRate) == GainReset([g EXCEPT !.sampleRate = sampleRate])

\* dsp::Gain::setRampDurationSeconds: stores and resets only on a change.
SetRampDurationSeconds(g, seconds) ==
    IF g.rampDurationSeconds # seconds
    THEN GainReset([g EXCEPT !.rampDurationSeconds = seconds])
    ELSE g

\* prepareToPlay (PluginProcessor.cpp:116-126).
Prepared(g, sampleRate) ==
    SetRampDurationSeconds(GainPrepare(g, sampleRate), RampDurationSeconds)

\* dsp::Gain::setGainLinear -> SmoothedValue::setTargetValue.
\* Variants of SetTargetValue: one that jumps to the new target, one that
\* restarts the ramp also when the target is unchanged, one without the case
\* of a ramp of no steps.
SetTargetValueJump(g, newValue) ==
    [g EXCEPT !.target = newValue, !.currentValue = newValue, !.countdown = 0]

SetTargetValueRestart(g, newValue) ==
    IF g.stepsToTarget <= 0
    THEN [g EXCEPT !.target = newValue, !.currentValue = newValue, !.countdown = 0]
    ELSE [g EXCEPT !.target = newValue,
                   !.countdown = g.stepsToTarget,
                   !.step = RDivInt(RSub(newValue, g.currentValue), g.stepsToTarget)]

SetTargetValueNoZeroLength(g, newValue) ==
    IF newValue = g.target
    THEN g
    ELSE [g EXCEPT !.target = newValue,
                   !.countdown = g.stepsToTarget,
                   !.step = IF g.stepsToTarget <= 0 THEN RInt(0)
                            ELSE RDivInt(RSub(newValue, g.currentValue), g.stepsToTarget)]

SetTargetValue(g, newValue) ==
    IF newValue = g.target
    THEN g
    ELSE IF g.stepsToTarget <= 0
         THEN [g EXCEPT !.target = newValue, !.currentValue = newValue, !.countdown = 0]
         ELSE [g EXCEPT !.target = newValue,
                        !.countdown = g.stepsToTarget,
                        !.step = RDivInt(RSub(newValue, g.currentValue), g.stepsToTarget)]

\* SmoothedValue::getNextValue: the stage after one sample.  The value
\* returned is target when not smoothing, else the new currentValue, which
\* NextValue reads off the stage before and after.
GetNextValue(g) ==
    IF g.countdown <= 0
    THEN g
    ELSE IF g.countdown - 1 > 0
         THEN [g EXCEPT !.countdown = g.countdown - 1,
                        !.currentValue = RAdd(g.currentValue, g.step)]
         ELSE [g EXCEPT !.countdown = g.countdown - 1,
                        !.currentValue = g.target]

NextValue(before, after) == IF before.countdown <= 0 THEN before.target ELSE after.currentValue

\* dsp::Gain::process on a block of numSamples: one getNextValue per sample
\* index, the same gain for every channel.  Returns the stage and the gains.
RECURSIVE GainProcess(_, _, _)
GainProcess(g, numSamples, gains) ==
    IF numSamples = 0
    THEN [gain |-> g, gains |-> gains]
    ELSE LET after == GetNextValue(g)
         IN  GainProcess(after, numSamples - 1, Append(gains, NextValue(g, after)))


(***************************************************************************)
(* Inputs.                                                                  *)
(***************************************************************************)
\* Plain values handed to a control-path write, in and out of range, on and
\* off the 0.1 dB grid.
SetValues == {-7000, -6000, -2000, 3, 600, 1300}

\* The writes made while the audio thread runs.
AudioSetValues == {-6000, 600}

\* Sample rates handed to prepareToPlay.  They are scaled down so that a
\* 50 ms ramp is two or three samples long; 50 and 70 make 0.05 * sampleRate
\* fall between two integers, as 22050 Hz does.
SampleRates == {40, 50, 70}

\* Blobs a host may hand to setStateInformation.
ForeignDocuments ==
    { Document(StateType, << >>),
      Document(StateType, << XmlChild("frequency", TRUE, FormatValue(100000)) >>),
      Document(StateType, << XmlChild("gain", FALSE, NoText) >>),
      Document(StateType, << XmlChild("gain", TRUE, FormatValue(-7000)) >>),
      Document(StateType, << XmlChild("gain", TRUE, FormatValue(-2000)) >>),
      Document(StateType, << XmlChild("gain", TRUE, FormatValue(3)) >>),
      Document(StateType, << XmlChild("frequency", TRUE, FormatValue(100000)),
                             XmlChild("gain", TRUE, FormatValue(1300)) >>),
      Document("Settings", << XmlChild("gain", TRUE, FormatValue(600)) >>) }

ForeignBlobs ==
    { Blob("magicXmlNumber", d) : d \in ForeignDocuments }
        \cup { Blob("magicXmlNumber", Unparseable),
               Blob("junk", Document(StateType, << XmlChild("gain", TRUE, FormatValue(600)) >>)) }

(***************************************************************************)
(* State.                                                                   *)
(*   apvts, gain   the two members modelled above                           *)
(*   destData      the MemoryBlock the last getStateInformation filled      *)
(*   audioPc       where the audio thread is inside processBlock: "idle",   *)
(*                 or "loaded" after the atomic load of line 165            *)
(*   gainValue     processBlock's local float gainValue                     *)
(*   lastCall      history: the last control-context call and what the      *)
(*                 parameter held before it                                 *)
(*   foreign       history: a blob not written by getStateInformation was   *)
(*                 restored                                                 *)
(*   stored        history: every value the atomic cell has held            *)
(*   audio         history of the audio thread:                             *)
(*     last          last lifecycle step: "none", "prepare", "load", "run"  *)
(*     blocks        processBlock calls started                             *)
(*     loadedDb      the value the last atomic load returned                *)
(*     written       a control write landed after that load                 *)
(*     wasPrepared   prepareToPlay had run when the last block ran          *)
(*     applied       the gains applied to the samples of the last block     *)
(*     previous      the gain applied to the sample before that block       *)
(*     hasPrevious   there was such a sample                                *)
(*     straddles     a prepareToPlay ran between that sample and the block  *)
(*     pending       a prepareToPlay ran since the last block               *)
(*     initialGain   the gain the stage was at when its target last changed *)
(*     since         samples processed since the later of the last target   *)
(*                   change and the last prepareToPlay                      *)
(***************************************************************************)
VARIABLES apvts, gain, destData, audioPc, gainValue, lastCall, foreign, stored, audio

vars == <<apvts, gain, destData, audioPc, gainValue, lastCall, foreign, stored, audio>>

Call(op, v, data, before, beforeValue, own) ==
    [op |-> op, v |-> v, data |-> data, before |-> before,
     beforeValue |-> beforeValue, own |-> own]

Init ==
    /\ apvts = Constructed
    /\ gain = GainConstructed
    /\ destData = NoBlob
    /\ audioPc = "idle"
    /\ gainValue = RInt(0)
    /\ lastCall = Call("none", 0, NoBlob, GainDefault, GainDefault, FALSE)
    /\ foreign = FALSE
    /\ stored = {Constructed.unnormalisedValue}
    /\ audio = [last |-> "none", blocks |-> 0, loadedDb |-> 0, written |-> FALSE,
                wasPrepared |-> FALSE, applied |-> << >>, previous |-> RInt(0),
                hasPrevious |-> FALSE, straddles |-> FALSE, pending |-> FALSE,
                initialGain |-> RInt(0), since |-> 0]

(***************************************************************************)
(* Control context.                                                         *)
(***************************************************************************)
\* A write of v to "gain" by the slider attachment, the host or any holder of
\* getValueTreeState().
Set(v) ==
    /\ apvts' = Written(apvts, v)
    /\ lastCall' = Call("set", v, NoBlob, apvts.unnormalisedValue, apvts.value, FALSE)
    /\ stored' = stored \cup {apvts'.unnormalisedValue}
    /\ audio' = [audio EXCEPT !.written = TRUE]
    /\ UNCHANGED <<gain, destData, audioPc, gainValue, foreign>>

\* getStateInformation (PluginProcessor.cpp:191-197).
GetStateInformation ==
    /\ apvts' = StateInformation(apvts).apvts
    /\ destData' = StateInformation(apvts).destData
    /\ lastCall' = Call("get", 0, NoBlob, apvts.unnormalisedValue, apvts.value, FALSE)
    /\ UNCHANGED <<gain, audioPc, gainValue, foreign, stored, audio>>

\* setStateInformation (PluginProcessor.cpp:199-207) on a blob.
SetStateInformation(data) ==
    /\ apvts' = Restored(apvts, data)
    /\ lastCall' = Call("restore", 0, data, apvts.unnormalisedValue, apvts.value,
                        data = destData /\ lastCall.op = "get")
    /\ foreign' = (foreign \/ data # destData)
    /\ stored' = stored \cup {apvts'.unnormalisedValue}
    /\ audio' = [audio EXCEPT !.written = (audio.written
                                              \/ apvts'.unnormalisedValue # apvts.unnormalisedValue)]
    /\ UNCHANGED <<gain, destData, audioPc, gainValue>>

\* AudioProcessorValueTreeState::timerCallback, started by the constructor of
\* apvts (PluginProcessor.cpp:14): flushes the parameter into the tree.
TimerCallback ==
    /\ apvts' = FlushToTree(apvts)
    /\ UNCHANGED <<gain, destData, audioPc, gainValue, lastCall, foreign, stored, audio>>

(***************************************************************************)
(* Lifecycle calls made by the host.  The host makes them one at a time,    *)
(* in any order: nothing in the processor orders them.                      *)
(***************************************************************************)
\* prepareToPlay (PluginProcessor.cpp:116-126).
PrepareToPlay(sampleRate) ==
    /\ audioPc = "idle"
    /\ gain' = Prepared(gain, sampleRate)
    /\ audio' = [audio EXCEPT !.last = "prepare", !.pending = TRUE, !.since = 0]
    /\ UNCHANGED <<apvts, destData, audioPc, gainValue, lastCall, foreign, stored>>

\* processBlock up to the atomic load and the conversion of line 165.
ProcessBlockLoad ==
    /\ audioPc = "idle"
    /\ audio.blocks < MaxBlocks
    /\ gainValue' = DecibelsToGain(apvts.unnormalisedValue)
    /\ audioPc' = "loaded"
    /\ audio' = [audio EXCEPT !.last = "load", !.blocks = audio.blocks + 1,
                              !.loadedDb = apvts.unnormalisedValue, !.written = FALSE]
    /\ UNCHANGED <<apvts, gain, destData, lastCall, foreign, stored>>

\* The value line 166 hands to gain.setGainLinear: the local gainValue.
\* Variant of GainArgument that loads the cell a second time.
GainArgumentReloaded(local, s) == DecibelsToGain(s.unnormalisedValue)

GainArgument(local, s) == local

\* processBlock from line 166 on: setGainLinear, then gain.process on the
\* block of numSamples samples.
ProcessBlockRun(numSamples) ==
    LET targeted == SetTargetValue(gain, GainArgument(gainValue, apvts))
        changed == targeted.target # gain.target
        done == GainProcess(targeted, numSamples, << >>)
    IN  /\ audioPc = "loaded"
        /\ gain' = done.gain
        /\ audioPc' = "idle"
        /\ audio' = [audio EXCEPT
                        !.last = "run",
                        !.wasPrepared = (gain.sampleRate > 0),
                        !.applied = done.gains,
                        !.previous = IF audio.applied = << >> THEN RInt(0)
                                     ELSE audio.applied[Len(audio.applied)],
                        !.hasPrevious = (audio.applied # << >>),
                        !.straddles = audio.pending,
                        !.pending = FALSE,
                        !.initialGain = IF changed THEN gain.currentValue ELSE audio.initialGain,
                        !.since = (IF changed THEN 0 ELSE audio.since) + numSamples]
        /\ UNCHANGED <<apvts, destData, gainValue, lastCall, foreign, stored>>

(***************************************************************************)
(* Two specifications over the same state.  Spec is the control context on  *)
(* its own: writes, saves, restores and the store's timer.  SpecAudio is    *)
(* the audio thread running against control-context writes.                 *)
(***************************************************************************)
Next ==
    \/ \E v \in SetValues : Set(v)
    \/ GetStateInformation
    \/ \E data \in ForeignBlobs \cup {destData} : SetStateInformation(data)
    \/ TimerCallback

Spec == Init /\ [][Next]_vars

NextAudio ==
    \/ \E v \in AudioSetValues : Set(v)
    \/ \E sampleRate \in SampleRates : PrepareToPlay(sampleRate)
    \/ ProcessBlockLoad
    \/ \E numSamples \in 1..MaxBlockSize : ProcessBlockRun(numSamples)

SpecAudio == Init /\ [][NextAudio]_vars


(***************************************************************************)
(* Properties of the control context, checked under Spec.                   *)
(***************************************************************************)
\* What the properties expect, stated without the store's own routines.
InRange(v) == GainMin <= v /\ v <= GainMax

OnGrid(v) == (v - GainMin) % GainInterval = 0

Clamped(v) == IF v < GainMin THEN GainMin ELSE IF v > GainMax THEN GainMax ELSE v

\* The in-range multiple of the 0.1 dB step nearest to v (no input lies
\* exactly half-way between two steps).
NearestLegal(v) ==
    LET c == Clamped(v)
    IN  CHOOSE g \in (c - GainInterval)..(c + GainInterval) :
            OnGrid(g) /\ InRange(g) /\ 2 * Abs(g - c) < GainInterval

WellFormed(data) ==
    data.magic = "magicXmlNumber" /\ data.doc.parses /\ data.doc.tag = "Parameters"

GainElements(data) == {i \in DOMAIN data.doc.children : data.doc.children[i].id = "gain"}

LastGainElement(data) ==
    data.doc.children[CHOOSE i \in GainElements(data) : \A j \in GainElements(data) : j <= i]

ParameterUnchanged ==
    apvts.unnormalisedValue = lastCall.before /\ apvts.value = lastCall.beforeValue

ParameterIs(v) == apvts.unnormalisedValue = v /\ apvts.value = v

\* C1: after writes only (no blob from elsewhere was restored before), a
\* getStateInformation followed at once by setStateInformation of the blob
\* it wrote leaves the parameter's value as it was.
RoundTripKeepsValue ==
    (lastCall.op = "restore" /\ lastCall.own /\ ~foreign) => ParameterUnchanged

RoundTripWitness ==
    /\ lastCall.op = "restore" /\ lastCall.own /\ ~foreign
    /\ lastCall.before = GainMin
    /\ apvts.unnormalisedValue = GainMin

MalformedRestoreChangesNothing ==
    (lastCall.op = "restore" /\ ~WellFormed(lastCall.data)) => ParameterUnchanged

MalformedRestoreWitness ==
    /\ lastCall.op = "restore"
    /\ lastCall.data.magic = "magicXmlNumber" /\ lastCall.data.doc.parses
    /\ lastCall.data.doc.tag = "Settings"
    /\ lastCall.before = -2000
    /\ apvts.unnormalisedValue = -2000

\* C4 as claimed: after a write of v the parameter reads clamp (v, min, max).
SetThenGetIsClamp ==
    lastCall.op = "set" => ParameterIs(Clamped(lastCall.v))

\* C4 amended: after a write of v the parameter reads v snapped to the
\* nearest 0.1 dB step and clamped to [-60, 12] dB, which is clamp (v) when
\* v lies on a step.
SetThenGetIsLegalValue ==
    /\ GainMin = -6000 /\ GainMax = 1200
    /\ lastCall.op = "set" =>
          /\ ParameterIs(NearestLegal(lastCall.v))
          /\ OnGrid(lastCall.v) => ParameterIs(Clamped(lastCall.v))

SetThenGetWitness ==
    lastCall.op = "set" /\ lastCall.v = 3 /\ lastCall.before = 600 /\ apvts.unnormalisedValue = 0

\* C5: the parameter's value is within [min, max] in every state.
ValueWithinRange == InRange(apvts.unnormalisedValue) /\ InRange(apvts.value)

ValueWithinRangeWitness ==
    /\ lastCall.op = "restore" /\ WellFormed(lastCall.data)
    /\ GainElements(lastCall.data) # {}
    /\ LastGainElement(lastCall.data).hasValue
    /\ ParseValue(LastGainElement(lastCall.data).text) < GainMin
    /\ apvts.unnormalisedValue = GainMin


(***************************************************************************)
(* Properties of the audio thread, checked under SpecAudio.                 *)
(***************************************************************************)
\* 10^(dB/20) in thousandths, written out for the values the parameter takes.
Linear(dB) ==
    CASE dB = -6000 -> RInt(1)
      [] dB = -2000 -> RInt(100)
      [] dB = 0 -> RInt(1000)
      [] dB = 600 -> RInt(1995)
      [] dB = 1200 -> RInt(3981)

\* The gains of the last block, led by the gain of the sample before it.
Run(withPrevious) ==
    IF withPrevious THEN <<audio.previous>> \o audio.applied ELSE audio.applied

\* Every sample-to-sample change of gain in r, taken stepsToTarget times, is
\* at most |target - initialGain|.
WithinRampStep(r) ==
    \A i \in 1..(Len(r) - 1) :
        LET delta == RAbs(RSub(r[i + 1], r[i]))
        IN  RLeq([n |-> delta.n * gain.stepsToTarget, d |-> delta.d],
                 RAbs(RSub(gain.target, audio.initialGain)))

\* The samples of the last block from the one that completes the count of
\* length samples carry the target gain, and the stage rests on it.
SettledAfter(length) ==
    /\ \A i \in 1..Len(audio.applied) :
          (audio.since - Len(audio.applied) + i >= length) => audio.applied[i] = gain.target
    /\ audio.since >= length => (gain.currentValue = gain.target /\ gain.countdown = 0)

\* C6 as claimed: prepareToPlay at sampleRate makes the ramp
\* round (0.05 * sampleRate) samples long, and once that many samples were
\* processed since the target last changed, the applied gain is the target
\* and stays there.
RampOfRoundedLength ==
    /\ gain.sampleRate > 0 => gain.stepsToTarget = (gain.sampleRate + 10) \div 20
    /\ (audio.last = "run" /\ audio.wasPrepared) => SettledAfter((gain.sampleRate + 10) \div 20)

\* C6 amended: prepareToPlay at sampleRate makes the ramp
\* floor (0.05 * sampleRate) samples long, on every call; once that many
\* samples were processed since the target last changed, the applied gain is
\* exactly the target and stays the target on all further samples, also when
\* later blocks submit the same target again.
RampCompletesAndHolds ==
    /\ gain.sampleRate > 0 =>
          /\ 20 * gain.stepsToTarget <= gain.sampleRate
          /\ gain.sampleRate < 20 * (gain.stepsToTarget + 1)
    /\ (audio.last = "run" /\ audio.wasPrepared) => SettledAfter(gain.stepsToTarget)

RampCompletesWitness ==
    /\ audio.last = "run" /\ audio.wasPrepared
    /\ gain.sampleRate = 70 /\ gain.stepsToTarget = 3
    /\ audio.blocks >= 3
    /\ audio.since = 4
    /\ gain.target = RInt(1995)
    /\ audio.previous # gain.target
    /\ audio.applied = <<gain.target, gain.target>>

\* C7 as claimed: between any two consecutive samples the applied gain
\* changes by at most |target - initialGain| / rampDurationSamples.
NoClickAtAnySample ==
    audio.last = "run" => WithinRampStep(Run(audio.hasPrevious))

\* C7 amended: between two consecutive samples processed after a
\* prepareToPlay, with no prepareToPlay between them, the applied gain
\* changes by at most |target - initialGain| / rampDurationSamples, also when
\* the target changes in the middle of a ramp; a prepareToPlay in the middle
\* of a ramp moves the gain to the target in one step.
NoClickWithinSession ==
    (audio.last = "run" /\ audio.wasPrepared) =>
        WithinRampStep(Run(audio.hasPrevious /\ ~audio.straddles))

NoClickWitness ==
    /\ audio.last = "run" /\ audio.wasPrepared
    /\ audio.hasPrevious /\ ~audio.straddles
    /\ gain.stepsToTarget = 3
    /\ audio.initialGain \notin {RInt(0), RInt(1), RInt(1000), RInt(1995)}
    /\ gain.target = RInt(1)
    /\ audio.applied[1] # audio.previous
    /\ gain.countdown > 0

\* C8 as claimed: a processBlock step is only ever taken after a
\* prepareToPlay.
ProcessOnlyAfterPrepare ==
    /\ audioPc = "loaded" => gain.sampleRate > 0
    /\ audio.last = "run" => audio.wasPrepared

\* C8 amended: processBlock does not look at whether prepareToPlay ran;
\* called before any prepareToPlay it completes, with a ramp of 0 samples:
\* every sample of the block gets the target gain just converted from the
\* parameter, and the stage rests on it.
UnpreparedProcessJumpsToTarget ==
    (audio.last = "run" /\ ~audio.wasPrepared) =>
        /\ gain.stepsToTarget = 0
        /\ gain.target = gainValue /\ gain.currentValue = gainValue /\ gain.countdown = 0
        /\ \A i \in 1..Len(audio.applied) : audio.applied[i] = gainValue

UnpreparedProcessWitness ==
    /\ audio.last = "run" /\ ~audio.wasPrepared
    /\ gain.sampleRate = 0
    /\ audio.hasPrevious /\ audio.previous = RInt(1000)
    /\ audio.applied = <<RInt(1995), RInt(1995)>>

\* C9: processBlock uses the value of its one atomic load: the value loaded
\* is one the cell has held, the target set by the callback is the conversion
\* of that loaded value whatever writes land after the load, and when no
\* write landed after the load it is the conversion of the cell's value.
TargetIsTheOneLoadedValue ==
    /\ audio.last \in {"load", "run"} => audio.loadedDb \in stored
    /\ audio.last = "run" =>
          /\ gain.target = Linear(audio.loadedDb)
          /\ ~audio.written => gain.target = Linear(apvts.unnormalisedValue)

TargetIsLoadedWitness ==
    /\ audio.last = "run" /\ audio.written
    /\ audio.loadedDb = 600 /\ apvts.unnormalisedValue = -6000
    /\ gain.target = RInt(1995)

\* C10 as claimed: a parameter value of -60 dB is handed on as linear 0.
FloorAtMinusSixty ==
    (audioPc = "loaded" /\ audio.loadedDb = -6000) => gainValue = RInt(0)

\* C10 amended: a parameter value of -60 dB is handed on as 10^(-60/20) =
\* 0.001; the conversion's floor is -100 dB, below the parameter's range, so
\* every value the parameter holds converts to 10^(dB/20), never to 0.
MinusSixtyIsOneThousandth ==
    audioPc = "loaded" =>
        /\ gainValue = Linear(audio.loadedDb)
        /\ gainValue.n > 0
        /\ audio.loadedDb = -6000 => gainValue = [n |-> 1, d |-> 1]

MinusSixtyWitness ==
    audioPc = "loaded" /\ audio.loadedDb = GainMin /\ gainValue = RInt(1)

=============================================================================
